---------------------------- MODULE Spec2Model ----------------------------
(***************************************************************************)
(* Scanline polygon fill of src/src/lib.rs: Polygon::draw_styled (flat     *)
(* fill and outline dispatch) and Polygon3d::draw_styled (depth-tested     *)
(* fill through a shared depth map).                                       *)
(*                                                                         *)
(* Numbers.  Vertex coordinates are i32.  The coordinate differences of    *)
(* an edge (lines 59-60 and 297-298) can leave i32: a build without        *)
(* overflow checks wraps them (WrappingSub), a build with the checks       *)
(* panics, and a call on such a ring takes either outcome                  *)
(* (OverflowChecks).  The inverse slope, the x-intercept of an active      *)
(* edge, vertex depths, squared distances, point depths and depth cells    *)
(* are f32 in the source.  A finite f32 is the record [fin |-> TRUE, m, e] *)
(* of the value m * 2^e, with a significand of 24 binary digits            *)
(* (2^23 <= |m| < 2^24; zero is m = 0, e = 0), and every f32 operation     *)
(* (`as f32`, +, -, *, /, powi(2)) is the exact operation followed by      *)
(* rounding to the nearest such value, ties to the even significand, as    *)
(* the hardware does it: an intercept is the accumulated sum the source    *)
(* computes, not the exact intercept, and a point depth is the sum of      *)
(* rounded terms.  A result above f32::MAX is an infinity; a result below  *)
(* 2^-126 in magnitude is rounded to a multiple of 2^-149 (it keeps a      *)
(* significand of 24 digits in its record, with an exponent down to -172). *)
(* Non-finite values ([fin |-> FALSE]) are NaN and the two infinities.     *)
(* The two zeros of f32 are one value: no operation of the source tells    *)
(* them apart (is_finite, +=, round, <; the sort key x is never -0.0).     *)
(***************************************************************************)
EXTENDS Integers, Sequences, FiniteSets, TLC

(***************************************************************************)
(* Bounds of the model.  2D rings have at most MaxVerts vertices on the    *)
(* grid 0..MaxX by 0..MaxY (plus the scenario triangle); the step-wise    *)
(* sweep is guarded by MaxIter bodies, which no ring in the bounds         *)
(* reaches.  The depth map is DMRows by DMCols and a scene receives at     *)
(* most MaxCalls draw calls.                                               *)
(***************************************************************************)
MaxX == 1
MaxY == 2
MaxVerts == 3
MaxIter == 8
DMRows == 1
DMCols == 1
MaxCalls == 2

VARIABLES
  vertices,            \* self.vertices: the vertex ring, in source order
  translate,           \* self.translate
  stroke_width,        \* style.stroke_width of the call (0: fill, > 0: outline)
  sink_ok,             \* the call's target accepts writes (FALSE: every write returns Err)
  fill_color,          \* style.fill_color of the call: "Some" or "None"
  pc,                  \* position of the draw call
  global_edge_table,   \* Vec of (min_y_and_corresponding_x, max_y, slope_inv)
  active_edge_table,   \* Vec of (max_y, x, slope_inverse)
  scan_line,           \* the sweep's current row
  pixels,              \* pixels the target has accepted from the fill arm's spans
  write_failed,        \* some write to the draw target returned Err
  result,              \* what draw_styled returned ("none" until it returns)
  iterations,          \* bodies of the sweep loop executed so far
  last_line,           \* row of the latest pairing step
  last_active,         \* active_edge_table.len() at the latest pairing step
  last_spans,          \* spans drawn by the latest pairing step
  polyline_points,     \* the closed, translated point list handed to Polyline
  poly_a,              \* a Polygon3d: its vertex ring, per-vertex depths and fill colour
  poly_b,              \* a second Polygon3d sharing the depth map
  depth_map,           \* the shared RefCell<DMatrix<f32>>, indexed (x, y)
  display,             \* colour of each pixel of the draw target ("none": never written)
  calls,               \* the 3D draw calls made so far, in order
  initial_depth,       \* the value every depth cell held before the first call
  pre_depth_map,       \* depth_map as the latest 3D call found it
  covered,             \* pixels the latest 3D call's span loops visited
  emitted,             \* pixels the latest 3D call handed to target.draw_iter
  result3              \* what the latest 3D call returned

vars2 == <<vertices, translate, stroke_width, sink_ok, fill_color, pc,
           global_edge_table,
           active_edge_table, scan_line, pixels, write_failed, result,
           iterations, last_line, last_active, last_spans, polyline_points>>

vars3 == <<poly_a, poly_b, depth_map, display, calls, initial_depth,
           pre_depth_map, covered, emitted, result3>>

vars == <<vars2, vars3>>

(***************************************************************************)
(* Arithmetic: integers, and f32 with the rounding of each operation.      *)
(***************************************************************************)
Abs(n) == IF n < 0 THEN -n ELSE n

Min(a, b) == IF a < b THEN a ELSE b

Max(a, b) == IF a > b THEN a ELSE b

\* the powers of two an i32 holds
Powers ==
  <<1, 2, 4, 8, 16, 32, 64, 128, 256, 512, 1024, 2048, 4096, 8192, 16384,
    32768, 65536, 131072, 262144, 524288, 1048576, 2097152, 4194304,
    8388608, 16777216, 33554432, 67108864, 134217728, 268435456, 536870912,
    1073741824>>

\* 2^k, 0 <= k <= 30
Pow2(k) == Powers[k + 1]

\* BitLen, two digits and four, eight and sixteen digits at a time
BitLen2(n, k) == k + (IF n >= 2 THEN 2 ELSE n)

BitLen4(n, k) == IF n >= 4 THEN BitLen2(n \div 4, k + 2) ELSE BitLen2(n, k)

BitLen8(n, k) == IF n >= 16 THEN BitLen4(n \div 16, k + 4) ELSE BitLen4(n, k)

BitLen16(n, k) == IF n >= 256 THEN BitLen8(n \div 256, k + 8) ELSE BitLen8(n, k)

\* number of binary digits of n, 0 <= n < 2^31
BitLen(n) == IF n >= 65536 THEN BitLen16(n \div 65536, 16) ELSE BitLen16(n, 0)

\* f32::NAN
NaN == [fin |-> FALSE, m |-> 0, e |-> 0]

\* f32::INFINITY (s = 1) and f32::NEG_INFINITY (s = -1)
Inf(s) == [fin |-> FALSE, m |-> s, e |-> 0]

\* 0.0
Zero == [fin |-> TRUE, m |-> 0, e |-> 0]

Sign(v) == IF v.m > 0 THEN 1 ELSE IF v.m < 0 THEN -1 ELSE 0

\* s * q * 2^e for a significand q of 24 digits, or 2^24 after rounding up;
\* above f32::MAX = (2^24 - 1) * 2^104 the rounded value is an infinity
Pack(s, q, e) ==
  IF q = 16777216
  THEN (IF e >= 104 THEN Inf(s)
        ELSE [fin |-> TRUE, m |-> s * 8388608, e |-> e + 1])
  ELSE IF e > 104 THEN Inf(s)
  ELSE [fin |-> TRUE, m |-> s * q, e |-> e]

\* the digits n has beyond 24, 2^23 <= n < 2^31
Excess(n) ==
  IF n < 16777216 THEN 0
  ELSE IF n < 33554432 THEN 1
  ELSE IF n < 67108864 THEN 2
  ELSE IF n < 134217728 THEN 3
  ELSE IF n < 268435456 THEN 4
  ELSE IF n < 536870912 THEN 5
  ELSE IF n < 1073741824 THEN 6
  ELSE 7

\* s * n * 2^e for 0 < n < 2^23, which has k digits fewer than 24: exact
Lift(s, n, e, k) == [fin |-> TRUE, m |-> s * n * Pow2(k), e |-> e - k]

\* q + r/d cut to the leading 24 digits of q (sh digits are cut off and
\* join the remainder), then rounded to nearest, ties to even
NarrowRound(s, q, r, d, e, sh) ==
  LET kept == q \div Pow2(sh)
      twice == 2 * ((q % Pow2(sh)) * d + r)
      unit == Pow2(sh) * d
  IN  IF twice > unit \/ (twice = unit /\ kept % 2 = 1)
      THEN Pack(s, kept + 1, e + sh)
      ELSE Pack(s, kept, e + sh)

\* s * n * 2^e (n >= 0) rounded to the nearest f32, ties to the even
\* significand
RoundNearest(s, n, e) ==
  IF n = 0 THEN Zero
  ELSE IF n < 8388608 THEN Lift(s, n, e, 24 - BitLen(n))
  ELSE IF n < 16777216 THEN [fin |-> TRUE, m |-> s * n, e |-> e]
  ELSE NarrowRound(s, n, 0, 1, e, Excess(n))

\* the integer t times 2^e, rounded to f32
RoundInt(t, e) ==
  IF t >= 0 THEN RoundNearest(1, t, e) ELSE RoundNearest(-1, -t, e)

\* the f32 nearest m * 2^e
F32(m, e) == RoundInt(m, e)

\* `i as f32` of an i32: exact below 2^24 in magnitude, rounded above
FromInt(i) ==
  IF i = -2147483647 - 1 THEN [fin |-> TRUE, m |-> -8388608, e |-> 8]
  ELSE RoundInt(i, 0)

\* a - b leaves i32
SubOverflows(a, b) ==
  \/ a >= 0 /\ b < 0 /\ a > 2147483647 + b
  \/ a < 0 /\ b > 0 /\ a < (-2147483647 - 1) + b

\* a - b on i32 without overflow checks: the difference modulo 2^32
WrappingSub(a, b) ==
  IF a >= 0 /\ b < 0 /\ a > 2147483647 + b
  THEN (a - 2147483647 - 1) - (b + 2147483647 + 1)
  ELSE IF a < 0 /\ b > 0 /\ a < (-2147483647 - 1) + b
  THEN (a + 2147483647 + 1) - (b - 2147483647 - 1)
  ELSE a - b

\* |a| < |b| on finite values
MagLess(a, b) ==
  IF b.m = 0 THEN FALSE
  ELSE IF a.m = 0 THEN TRUE
  ELSE a.e < b.e \/ (a.e = b.e /\ Abs(a.m) < Abs(b.m))

\* a.total_cmp(&b) == Less and a < b, on finite values (the two zeros are
\* one value here)
F32Less(a, b) ==
  IF Sign(a) # Sign(b) THEN Sign(a) < Sign(b)
  ELSE IF Sign(a) > 0 THEN MagLess(a, b)
  ELSE IF Sign(a) < 0 THEN MagLess(b, a)
  ELSE FALSE

\* a < b on f32: false when either is NaN; -inf is below and +inf above
\* every finite value
F32Lt(a, b) ==
  IF a.fin /\ b.fin THEN F32Less(a, b)
  ELSE IF a = NaN \/ b = NaN THEN FALSE
  ELSE IF ~a.fin THEN a.m < 0 /\ a # b
  ELSE b.m > 0

\* the digits of sm from digit t upwards; the digits below, when any is set,
\* are kept as one sticky digit in the last place
Sticky(sm, t) ==
  IF t > 30 THEN 1
  ELSE IF sm % Pow2(t) = 0 \/ (sm \div Pow2(t)) % 2 = 1 THEN sm \div Pow2(t)
  ELSE (sm \div Pow2(t)) + 1

\* big + small when big's exponent is more than six above small's.  big is
\* held with three digits below its significand; the digits of small below
\* those are one sticky digit, which decides the rounding as the exact
\* digits would.
AddSticky(big, small) ==
  IF Sign(small) = Sign(big)
  THEN RoundNearest(Sign(big),
                    Abs(big.m) * 8 + Sticky(Abs(small.m), big.e - 3 - small.e),
                    big.e - 3)
  ELSE RoundNearest(Sign(big),
                    Abs(big.m) * 8 - Sticky(Abs(small.m), big.e - 3 - small.e),
                    big.e - 3)

\* a + b in f32: NaN when an operand is NaN or the operands are opposite
\* infinities, an infinite operand otherwise; on finite operands the exact
\* sum, rounded.  Exponents at most six apart: the
\* sum is formed exactly at the smaller one; further apart: the smaller
\* operand is cut with a sticky digit.
F32Add(a, b) ==
  IF ~a.fin \/ ~b.fin
  THEN (IF a = NaN \/ b = NaN \/ (~a.fin /\ ~b.fin /\ a # b) THEN NaN
        ELSE IF ~a.fin THEN a
        ELSE b)
  ELSE IF a.m = 0 THEN b
  ELSE IF b.m = 0 THEN a
  ELSE IF a.e >= b.e /\ a.e - b.e <= 6
  THEN RoundInt(a.m * Pow2(a.e - b.e) + b.m, b.e)
  ELSE IF b.e > a.e /\ b.e - a.e <= 6
  THEN RoundInt(b.m * Pow2(b.e - a.e) + a.m, a.e)
  ELSE IF a.e > b.e THEN AddSticky(a, b)
  ELSE AddSticky(b, a)

\* a - b in f32
F32Sub(a, b) == F32Add(a, [b EXCEPT !.m = -b.m])

\* the product of two significands A, B < 2^24 is MulHigh * 2^24 + MulLow,
\* formed from halves of 12 digits so that every step stays in i32: mid is
\* the sum of the two cross products, lower the digits below 2^24 with the
\* carry into MulHigh still on top
MulMid(A, B) == (A \div 4096) * (B % 4096) + (A % 4096) * (B \div 4096)

MulLower(A, B, mid) == (mid % 4096) * 4096 + (A % 4096) * (B % 4096)

MulHigh(A, B, mid, lower) ==
  (A \div 4096) * (B \div 4096) + mid \div 4096 + lower \div 16777216

MulLow(lower) == lower % 16777216

\* s * (H * 2^24 + L) * 2^e, rounded, for the product H, L of two
\* significands of 24 digits (H has 23 or 24 digits)
MulRound(s, H, L, e) ==
  IF H >= 8388608 THEN NarrowRound(s, H, L, 16777216, e + 24, 0)
  ELSE NarrowRound(s, 2 * H + L \div 8388608, L % 8388608, 8388608, e + 23, 0)

\* s * (H * 2^24 + L) * 2^e where e < -172: the result may be subnormal,
\* where f32 values are 2^-149 apart; the product is rounded to a multiple
\* of 2^-149 (tp + 24 digits are cut off)
MulTiny(s, H, L, tp) ==
  IF tp > 24 THEN Zero
  ELSE IF (IF tp = 0
           THEN L > 8388608 \/ (L = 8388608 /\ H % 2 = 1)
           ELSE \/ H % Pow2(tp) > Pow2(tp - 1)
                \/ /\ H % Pow2(tp) = Pow2(tp - 1)
                   /\ (L > 0 \/ (H \div Pow2(tp)) % 2 = 1))
  THEN RoundInt(s * ((H \div Pow2(tp)) + 1), -149)
  ELSE RoundInt(s * (H \div Pow2(tp)), -149)

\* a * b in f32: NaN when an operand is NaN or the operands are zero and an
\* infinity, an infinity when one operand is; on finite operands the exact
\* product, rounded
F32Mul(a, b) ==
  IF ~a.fin \/ ~b.fin
  THEN (IF a.m = 0 \/ b.m = 0 THEN NaN ELSE Inf(Sign(a) * Sign(b)))
  ELSE IF a.m = 0 \/ b.m = 0 THEN Zero
  ELSE LET A == Abs(a.m)
           B == Abs(b.m)
           mid == MulMid(A, B)
           lower == MulLower(A, B, mid)
           H == MulHigh(A, B, mid, lower)
           L == MulLow(lower)
       IN  IF a.e + b.e < -172
           THEN MulTiny(Sign(a) * Sign(b), H, L, -173 - a.e - b.e)
           ELSE MulRound(Sign(a) * Sign(b), H, L, a.e + b.e)

RECURSIVE DivFloor(_, _, _, _, _)
\* long division of (q + r/d) * 2^e, one binary digit at a time, until the
\* quotient has the 24 digits of an f32 significand or the exponent is
\* -149, the spacing of the subnormal values; then rounded to nearest, ties
\* to even
DivFloor(s, q, r, d, e) ==
  IF q >= 8388608 \/ e = -149
  THEN (IF 2 * r > d \/ (2 * r = d /\ q % 2 = 1) THEN RoundInt(s * (q + 1), e)
        ELSE RoundInt(s * q, e))
  ELSE IF 2 * r >= d THEN DivFloor(s, 2 * q + 1, 2 * r - d, d, e - 1)
  ELSE DivFloor(s, 2 * q, 2 * r, d, e - 1)

\* s * (A / K) * 2^e for e < -125, where the quotient may be subnormal: it
\* is rounded to 24 digits or to a multiple of 2^-149, whichever is
\* coarser.  Below -149 the t = -149 - e low digits of A are cut off first;
\* twice the remainder less the divisor is (2 * (A1 % K) - K) * 2^t + 2 * A0
\* for A = A1 * 2^t + A0.
DivTiny(s, A, K, e) ==
  IF e >= -149 THEN DivFloor(s, A \div K, A % K, K, e)
  ELSE IF -149 - e > 24 THEN Zero
  ELSE IF \/ 2 * ((A \div Pow2(-149 - e)) % K) - K >= 1
          \/ /\ 2 * ((A \div Pow2(-149 - e)) % K) - K = 0
             /\ \/ A % Pow2(-149 - e) > 0
                \/ ((A \div Pow2(-149 - e)) \div K) % 2 = 1
          \/ /\ 2 * ((A \div Pow2(-149 - e)) % K) - K = -1
             /\ \/ 2 * (A % Pow2(-149 - e)) > Pow2(-149 - e)
                \/ /\ 2 * (A % Pow2(-149 - e)) = Pow2(-149 - e)
                   /\ ((A \div Pow2(-149 - e)) \div K) % 2 = 1
  THEN RoundInt(s * (((A \div Pow2(-149 - e)) \div K) + 1), -149)
  ELSE RoundInt(s * ((A \div Pow2(-149 - e)) \div K), -149)

\* s * (A / K) * 2^e rounded to f32, for significands A and K of 24 digits:
\* long division by 7 binary digits at a time (a remainder times 128 stays
\* in i32), four times; the quotient then has 28 or 29 digits, of which
\* NarrowRound keeps 24
DivRound(s, A, K, e) ==
  LET q1 == (A * 128) \div K
      r1 == (A * 128) % K
      q2 == (r1 * 128) \div K
      r2 == (r1 * 128) % K
      q3 == (r2 * 128) \div K
      r3 == (r2 * 128) % K
      q4 == (r3 * 128) \div K
      r4 == (r3 * 128) % K
      q == ((q1 * 128 + q2) * 128 + q3) * 128 + q4
  IN  NarrowRound(s, q, r4, K, e - 28, Excess(q))

\* a / b in f32: NaN for NaN operands, inf/inf and 0/0; x/0 is an infinity
\* (the zero divisors of the source are +0.0) and x/inf is zero; on finite
\* operands the exact quotient, rounded
F32Div(a, b) ==
  IF ~a.fin \/ ~b.fin
  THEN (IF a = NaN \/ b = NaN \/ (~a.fin /\ ~b.fin) THEN NaN
        ELSE IF ~a.fin THEN Inf(IF b.m < 0 THEN -a.m ELSE a.m)
        ELSE Zero)
  ELSE IF b.m = 0 THEN (IF a.m = 0 THEN NaN ELSE Inf(Sign(a)))
  ELSE IF a.m = 0 THEN Zero
  ELSE IF a.e - b.e < -125
  THEN DivTiny(Sign(a) * Sign(b), Abs(a.m), Abs(b.m), a.e - b.e)
  ELSE DivRound(Sign(a) * Sign(b), Abs(a.m), Abs(b.m), a.e - b.e)

\* f32::round (half away from zero) followed by `as i32`, which saturates
\* at i32::MAX and i32::MIN (a significand of 24 digits times 2^8 is 2^31
\* or more) and sends NaN to 0
Round(x) ==
  IF ~x.fin \/ x.e >= 8
  THEN (IF x.m > 0 THEN 2147483647 ELSE IF x.m < 0 THEN -2147483647 - 1 ELSE 0)
  ELSE IF x.e >= 0 THEN x.m * Pow2(x.e)
  ELSE IF -x.e > 30 THEN 0
  ELSE Sign(x) * (IF 2 * (Abs(x.m) % Pow2(-x.e)) >= Pow2(-x.e)
                  THEN (Abs(x.m) \div Pow2(-x.e)) + 1
                  ELSE Abs(x.m) \div Pow2(-x.e))

Point(px, py) == [x |-> px, y |-> py]

(***************************************************************************)
(* Edge Table Builder: lib.rs 52-86.                                       *)
(***************************************************************************)
\* slope_inv = x_diff as f32 / y_diff as f32 (lines 59-61): each difference
\* is cast to f32, which rounds it above 2^24, before the division rounds
\* again.  The differences are those of a build without overflow checks;
\* where one overflows, a build with overflow checks panics instead
\* (RingOverflows).
SlopeInv(vertex, next_vertex) ==
  F32Div(FromInt(WrappingSub(next_vertex.x, vertex.x)),
         FromInt(WrappingSub(next_vertex.y, vertex.y)))

\* next_vertex.y - vertex.y or next_vertex.x - vertex.x (lines 59-60) leaves
\* i32 for some edge of the ring
RingOverflows(vs) ==
  \E i \in 1..Len(vs) :
     \/ SubOverflows(vs[(i % Len(vs)) + 1].y, vs[i].y)
     \/ SubOverflows(vs[(i % Len(vs)) + 1].x, vs[i].x)

\* the overflow checks of the build decide the outcome of a call only when
\* a difference overflows: TRUE stands for the panic "attempt to subtract
\* with overflow" of a build with the checks (the default of a debug
\* build), FALSE for the wrapped difference of a build without them
OverflowChecks(vs) == IF RingOverflows(vs) THEN BOOLEAN ELSE {FALSE}

\* f32::is_finite: x/0 is +-inf, 0/0 is NaN
IsFinite(slope) == slope.fin

\* MakeEdge with max_y one row too far (a fault the properties must detect).
MakeEdgeTall(vertex, next_vertex) ==
  [top    |-> IF vertex.y < next_vertex.y THEN vertex ELSE next_vertex,
   max_y  |-> Max(vertex.y, next_vertex.y) + 1,
   slope  |-> SlopeInv(vertex, next_vertex)]

\* the closure of the map at lines 53-64
MakeEdge(vertex, next_vertex) ==
  [top    |-> IF vertex.y < next_vertex.y THEN vertex ELSE next_vertex,
   max_y  |-> Max(vertex.y, next_vertex.y),
   slope  |-> SlopeInv(vertex, next_vertex)]

\* self.vertices.iter().enumerate().map(...): edge i joins vertex i and
\* vertex (i+1) % len
RawEdges(vs) ==
  [i \in 1..Len(vs) |-> MakeEdge(vs[i], vs[(i % Len(vs)) + 1])]

\* .filter(|(_, _, slope)| slope.is_finite())
KeepEdge(e) == IsFinite(e.slope)

RECURSIVE SkipSmallerY(_, _, _)
\* first while loop (line 73); i is the 0-based insertion_index
SkipSmallerY(get, v, i) ==
  IF i < Len(get) /\ v.top.y > get[i + 1].top.y
  THEN SkipSmallerY(get, v, i + 1) ELSE i

RECURSIVE SkipSmallerX(_, _, _)
\* second while loop (line 79)
SkipSmallerX(get, v, i) ==
  IF i < Len(get) /\ v.top.x > get[i + 1].top.x /\ v.top.y = get[i + 1].top.y
  THEN SkipSmallerX(get, v, i + 1) ELSE i

\* InsertEdge with the second while loop (the top.x tie-break) left out (a
\* fault the properties must detect).
InsertEdgeNoTieBreak(get, v) ==
  IF Len(get) = 0 THEN <<v>>
  ELSE LET idx == SkipSmallerY(get, v, 0)
       IN  SubSeq(get, 1, idx) \o <<v>> \o SubSeq(get, idx + 1, Len(get))

\* the closure of for_each at lines 66-86
InsertEdge(get, v) ==
  IF Len(get) = 0 THEN <<v>>
  ELSE LET idx == SkipSmallerX(get, v, SkipSmallerY(get, v, 0))
       IN  SubSeq(get, 1, idx) \o <<v>> \o SubSeq(get, idx + 1, Len(get))

RECURSIVE InsertAll(_, _, _)
InsertAll(get, edges, i) ==
  IF i > Len(edges) THEN get
  ELSE LET v == edges[i]
       IN  InsertAll(IF KeepEdge(v) THEN InsertEdge(get, v) ELSE get,
                     edges, i + 1)

BuildEdgeTable(vs) == InsertAll(<<>>, RawEdges(vs), 1)

(***************************************************************************)
(* Active Edge Scanner: lib.rs 87-136.                                     *)
(***************************************************************************)
\* active_edge_table.push((*max_y, edge.x as f32, *slope_inv))
Activate(e) == [max_y |-> e.max_y, x |-> FromInt(e.top.x), slope |-> e.slope]

RECURSIVE TransferInitialStrict(_, _, _)
\* TransferInitial with `<` for `<=` (a fault the properties must detect).
TransferInitialStrict(get, aet, line) ==
  IF Len(get) > 0 /\ get[1].top.y < line
  THEN TransferInitialStrict(Tail(get), Append(aet, Activate(get[1])), line)
  ELSE [get |-> get, aet |-> aet]

RECURSIVE TransferInitial(_, _, _)
\* loop at lines 91-99: front edges with top.y <= scan_line
TransferInitial(get, aet, line) ==
  IF Len(get) > 0 /\ get[1].top.y <= line
  THEN TransferInitial(Tail(get), Append(aet, Activate(get[1])), line)
  ELSE [get |-> get, aet |-> aet]

RECURSIVE TransferAtLine(_, _, _)
\* loop at lines 122-130: front edges with top.y == scan_line
TransferAtLine(get, aet, line) ==
  IF Len(get) > 0 /\ get[1].top.y = line
  THEN TransferAtLine(Tail(get), Append(aet, Activate(get[1])), line)
  ELSE [get |-> get, aet |-> aet]

\* Advance with the sign flipped, `*x -= *slope_inverse` (a fault the
\* properties must detect).
AdvanceBackwards(x, slope) == F32Sub(x, slope)

\* *x += *slope_inverse
Advance(x, slope) == F32Add(x, slope)

\* KeepActive that drops an edge one row before its bottom row,
\* `*max_y > scan_line + 1` (a fault the properties must detect).
KeepActiveEarly(entry, line) == entry.max_y > line + 1

\* the retain_mut predicate (lines 113-119): keep unless max_y == scan_line
KeepActive(entry, line) == entry.max_y # line

RECURSIVE RetainMut(_, _)
\* active_edge_table.retain_mut(...), lines 112-120
RetainMut(aet, line) ==
  IF aet = <<>> THEN <<>>
  ELSE LET e == Head(aet)
           rest == RetainMut(Tail(aet), line)
       IN  IF KeepActive(e, line)
           THEN <<[e EXCEPT !.x = Advance(e.x, e.slope)]>> \o rest
           ELSE rest

RECURSIVE InsertByX(_, _)
\* stable insertion: e goes after every entry whose x is not greater
InsertByX(sorted, e) ==
  IF sorted = <<>> THEN <<e>>
  ELSE IF F32Less(e.x, Head(sorted).x) THEN <<e>> \o sorted
  ELSE <<Head(sorted)>> \o InsertByX(Tail(sorted), e)

RECURSIVE SortByX(_)
\* active_edge_table.sort_by(|a, b| a.1.total_cmp(&b.1)) (stable), line 135
SortByX(aet) ==
  IF aet = <<>> THEN <<>>
  ELSE InsertByX(SortByX(SubSeq(aet, 1, Len(aet) - 1)), aet[Len(aet)])

(***************************************************************************)
(* Span Filler: lib.rs 104-108.                                            *)
(***************************************************************************)
\* active_edge_table.iter().tuples(): consecutive pairs, a dangling last
\* entry is dropped
Tuples(aet) ==
  [k \in 1..(Len(aet) \div 2) |-> <<aet[2 * k - 1], aet[2 * k]>>]

\* Line::new(a, b) drawn with a 1-pixel stroke: both end points and every
\* pixel between them
LinePixels(x0, x1, y) == {<<x, y>> : x \in Min(x0, x1)..Max(x0, x1)}

\* the pixels the for loop at lines 104-108 asks the target to draw
SpanPixels(aet, line) ==
  UNION {LinePixels(Round(aet[2 * k - 1].x), Round(aet[2 * k].x), line) :
           k \in 1..(Len(aet) \div 2)}

RECURSIVE SweepPixels(_, _, _, _)
\* the sweep loop (lines 101-136) run to its break: the pixels it asks for
SweepPixels(get, aet, line, drawn) ==
  LET asked == drawn \cup SpanPixels(aet, line)
      next_line == line + 1
      t == TransferAtLine(get, RetainMut(aet, next_line), next_line)
  IN  IF t.aet = <<>> THEN asked
      ELSE SweepPixels(t.get, SortByX(t.aet), next_line, asked)

\* the fill arm (lines 52-137) with a fill colour, as a function of the
\* vertex ring alone, which is all it reads of the polygon: the pixels of a
\* fill whose translate is (0, 0)
FillPixels(vs) ==
  LET get == BuildEdgeTable(vs)
  IN  IF Len(get) > 1
      THEN LET line == get[1].top.y
               t == TransferInitial(get, <<>>, line)
           IN  SweepPixels(t.get, t.aet, line, {})
      ELSE {}

(***************************************************************************)
(* Inputs.                                                                 *)
(***************************************************************************)
Points == {Point(px, py) : px \in 0..MaxX, py \in 0..MaxY}

\* the triangle of the fill scenario
Triangle == <<Point(0, 0), Point(4, 0), Point(0, 4)>>

\* a ring whose left edge has the inverse slope -1/6, which f32 does not
\* hold exactly: the x the source accumulates on row 3 is 0.49999994, not
\* 1/2, and rounds to 0
Sliver == <<Point(1, 0), Point(0, 6), Point(1, 6)>>

\* a ring whose horizontal edge joins x = i32::MIN and x = 1: its x
\* difference, 2^31 + 1, leaves i32
WideRing == <<Point(0, 0), Point(-2147483647 - 1, 1), Point(1, 1)>>

Rings ==
  UNION {[1..n -> Points] : n \in 0..MaxVerts} \cup {Triangle, Sliver, WideRing}

StrokeWidths == {1}

\* the target and the fill colour of a fill-mode call: an accepting or a
\* failing target with a fill colour, and a style without fill colour
FillCalls == {<<TRUE, "Some">>, <<FALSE, "Some">>, <<TRUE, "None">>}

Translations == {Point(0, 0), Point(1, 2)}

MinYOf(vs) == CHOOSE m \in {vs[i].y : i \in 1..Len(vs)} :
                \A i \in 1..Len(vs) : m <= vs[i].y

MaxYOf(vs) == CHOOSE m \in {vs[i].y : i \in 1..Len(vs)} :
                \A i \in 1..Len(vs) : m >= vs[i].y

(***************************************************************************)
(* Polygon::draw_styled as a state machine.                                *)
(***************************************************************************)
Init ==
  /\ vertices \in Rings
  /\ translate \in Translations
  /\ stroke_width = 0
  /\ sink_ok = TRUE
  /\ fill_color = "Some"
  /\ pc = "start"
  /\ global_edge_table = <<>>
  /\ active_edge_table = <<>>
  /\ scan_line = 0
  /\ pixels = {}
  /\ write_failed = FALSE
  /\ result = "none"
  /\ iterations = 0
  /\ last_line = 0
  /\ last_active = 0
  /\ last_spans = 0
  /\ polyline_points = <<>>
  /\ poly_a = <<>>
  /\ poly_b = <<>>
  /\ depth_map = <<>>
  /\ display = <<>>
  /\ calls = <<>>
  /\ initial_depth = 0
  /\ pre_depth_map = <<>>
  /\ covered = {}
  /\ emitted = {}
  /\ result3 = "none"

\* draw_styled(style, target) with style.stroke_width = 0, lines 49-86: the
\* fill arm builds the global edge table, or panics in the subtraction of
\* line 59 or 60 when a difference overflows and the build checks it
BuildTable ==
  /\ pc = "start"
  /\ \E c \in FillCalls : sink_ok' = c[1] /\ fill_color' = c[2]
  /\ stroke_width' = 0
  /\ \E checked \in OverflowChecks(vertices) :
        IF checked
        THEN pc' = "panic" /\ UNCHANGED global_edge_table
        ELSE global_edge_table' = BuildEdgeTable(vertices) /\ pc' = "built"
  /\ UNCHANGED <<vertices, translate, active_edge_table,
                 scan_line, pixels, write_failed, result, iterations,
                 last_line, last_active, last_spans, polyline_points>>
  /\ UNCHANGED vars3

\* lines 87-99 (and 138-139 when the table holds fewer than two edges)
BeginSweep ==
  /\ pc = "built"
  /\ IF Len(global_edge_table) > 1
     THEN LET line == global_edge_table[1].top.y
              t == TransferInitial(global_edge_table, active_edge_table, line)
          IN  /\ scan_line' = line
              /\ global_edge_table' = t.get
              /\ active_edge_table' = t.aet
              /\ pc' = "sweep"
              /\ result' = result
     ELSE /\ pc' = "done"
          /\ result' = "Ok"
          /\ UNCHANGED <<scan_line, global_edge_table, active_edge_table>>
  /\ UNCHANGED <<vertices, translate, stroke_width, sink_ok, fill_color,
                 pixels, write_failed, iterations, last_line, last_active,
                 last_spans, polyline_points>>
  /\ UNCHANGED vars3

\* lines 101-136: one body of the sweep loop, then 138-139 when it breaks.
\* The first span of a body evaluates style.fill_color.unwrap() (line 107),
\* which panics on a style without fill colour before anything is drawn.
ScanlineStep ==
  /\ pc = "sweep"
  /\ iterations < MaxIter
  /\ LET spans == Tuples(active_edge_table)
         line == scan_line + 1
         kept == RetainMut(active_edge_table, line)
         t == TransferAtLine(global_edge_table, kept, line)
     IN  IF Len(spans) > 0 /\ fill_color = "None"
         THEN /\ pc' = "panic"
              /\ UNCHANGED <<pixels, write_failed, last_line, last_active,
                             last_spans, scan_line, global_edge_table,
                             iterations, active_edge_table, result>>
         ELSE /\ pixels' = IF sink_ok
                           THEN pixels \cup SpanPixels(active_edge_table,
                                                       scan_line)
                           ELSE pixels
              /\ write_failed' = (write_failed \/ (Len(spans) > 0 /\ ~sink_ok))
              /\ last_line' = scan_line
              /\ last_active' = Len(active_edge_table)
              /\ last_spans' = Len(spans)
              /\ scan_line' = line
              /\ global_edge_table' = t.get
              /\ iterations' = iterations + 1
              /\ IF t.aet = <<>>
                 THEN /\ active_edge_table' = <<>>
                      /\ pc' = "done"
                      /\ result' = "Ok"
                 ELSE /\ active_edge_table' = SortByX(t.aet)
                      /\ pc' = "sweep"
                      /\ result' = result
  /\ UNCHANGED <<vertices, translate, stroke_width, sink_ok, fill_color,
                 polyline_points>>
  /\ UNCHANGED vars3

\* complete_points (line 142) after .translate(self.translate) (line 143)
ClosedPoints(vs, t) ==
  [i \in 1..(Len(vs) + 1) |->
     LET v == IF i <= Len(vs) THEN vs[i] ELSE vs[1]
     IN  Point(v.x + t.x, v.y + t.y)]

\* draw_styled(style, target) with style.stroke_width > 0, lines 141-144: the
\* outline arm delegates to Polyline, whose result is returned;
\* self.vertices[0] panics on an empty ring.  Polyline rasterises the points
\* by its own algorithm, outside this source: the model keeps the point list
\* it receives and the result it returns, not the pixels it draws.
DrawOutline ==
  /\ pc = "start"
  /\ \E ok \in BOOLEAN : sink_ok' = ok
  /\ \E w \in StrokeWidths : stroke_width' = w
  /\ IF Len(vertices) = 0
     THEN /\ pc' = "panic"
          /\ UNCHANGED <<polyline_points, result, write_failed>>
     ELSE /\ polyline_points' = ClosedPoints(vertices, translate)
          /\ pc' = "done"
          /\ result' = IF sink_ok' THEN "Ok" ELSE "Err"
          /\ write_failed' = ~sink_ok'
  /\ UNCHANGED <<vertices, translate, fill_color, global_edge_table,
                 active_edge_table, scan_line, pixels, iterations, last_line,
                 last_active, last_spans>>
  /\ UNCHANGED vars3

Next == BuildTable \/ BeginSweep \/ ScanlineStep \/ DrawOutline

Spec == Init /\ [][Next]_vars

(***************************************************************************)
(* Depth Compositor: Polygon3d::draw_styled, lib.rs 287-388.  Its edge     *)
(* table builder (291-323) and scanner (324-336, 358-384) repeat lines     *)
(* 52-99 and 110-136 token for token, so the operators above model both.   *)
(* Every f32 operation of lines 346-350 is rounded as the source rounds   *)
(* it.                                                                     *)
(***************************************************************************)
\* a and b are at most 2^24 in magnitude and at most 2896 apart: `a as f32`,
\* `b as f32` and their difference are exact, and the squares of two such
\* differences sum to less than 2^24 (2 * 2896^2 = 16773632)
ExactDiff(a, b) ==
  /\ a >= -16777216 /\ a <= 16777216
  /\ b >= -16777216 /\ b <= 16777216
  /\ a - b >= -2896 /\ a - b <= 2896

\* t.powi(2): the product t * t, rounded
F32Sq(t) == F32Mul(t, t)

\* (v.x as f32 - x_f).powi(2) + (v.y as f32 - y_f).powi(2), line 346: two
\* casts, a subtraction, a square on each axis and an addition, each
\* rounded to f32.  Where ExactDiff holds on both axes every one of these
\* values is an integer below 2^24 and no step rounds: the result is the
\* integer sum of squares as an f32.
SqDist(v, x, y) ==
  IF ExactDiff(v.x, x) /\ ExactDiff(v.y, y)
  THEN FromInt((v.x - x) * (v.x - x) + (v.y - y) * (v.y - y))
  ELSE F32Add(F32Sq(F32Sub(FromInt(v.x), FromInt(x))),
              F32Sq(F32Sub(FromInt(v.y), FromInt(y))))

RECURSIVE Distances(_, _, _, _)
\* distances (line 346): the squared distances of (x, y) to the first i
\* vertices, in source order
Distances(ring, x, y, i) ==
  IF i = 0 THEN <<>>
  ELSE Append(Distances(ring, x, y, i - 1), SqDist(ring[i], x, y))

RECURSIVE SumTo(_, _)
\* distances.iter().sum::<f32>(), line 347: the f32 sum of the first n
\* entries, added in order from 0.0, each addition rounded
SumTo(f, n) == IF n = 0 THEN Zero ELSE F32Add(SumTo(f, n - 1), f[n])

RECURSIVE WeightedSum(_, _, _, _)
\* line 348: the f32 sum, in source order, of (depth * d) / sum over the
\* first i vertices; every product, quotient and partial sum is rounded
WeightedSum(depths, dist, sum, i) ==
  IF i = 0 THEN Zero
  ELSE F32Add(WeightedSum(depths, dist, sum, i - 1),
              F32Div(F32Mul(depths[i], dist[i]), sum))

\* point_depth, lines 346-348
PointDepth(poly, x, y) ==
  LET n == Len(poly.ring)
      dist == Distances(poly.ring, x, y, n)
      sum == SumTo(dist, n)
  IN  WeightedSum(poly.depths, dist, sum, n)

\* DepthTest made non-strict, `*d <= point_depth` (a fault the properties
\* must detect).
DepthTestOrEqual(d, point_depth) ==
  F32Lt(d, point_depth) \/ (d # NaN /\ d = point_depth)

\* `*d < point_depth` (line 350): false when either side is NaN
DepthTest(d, point_depth) == F32Lt(d, point_depth)

\* `as usize` of an i32 on a 64-bit target: a negative value sign-extends
\* to 2^64 + i.  The record stands for the usize low + 2^64 (if wrapped).
AsUsize(i) == [wrapped |-> i < 0, low |-> i]

\* depth_map.get_mut((row, col)) is Some (line 349): row < nrows and
\* col < ncols.  A wrapped index is at least 2^64 - 2^31, which no matrix
\* dimension reaches.
InBounds(row, col) ==
  /\ ~row.wrapped /\ row.low < DMRows
  /\ ~col.wrapped /\ col.low < DMCols

\* lines 344-354: one pixel of a span.  The Result of target.draw_iter is
\* dropped (line 351): a target that refuses the pixel keeps its colour, and
\* the cell is overwritten all the same (line 352).
PixelStep(poly, x, line, acc) ==
  LET point_depth == PointDepth(poly, x, line)
      row == AsUsize(x)
      col == AsUsize(line)
      cell == <<row.low, col.low>>
      seen == [acc EXCEPT !.covered = @ \cup {<<x, line>>}]
  IN  IF InBounds(row, col) /\ DepthTest(acc.dm[cell], point_depth)
      THEN [seen EXCEPT !.disp[<<x, line>>] =
                            IF acc.ok THEN poly.colour ELSE @,
                        !.emitted = @ \cup {<<x, line>>},
                        !.dm[cell] = point_depth]
      ELSE seen

RECURSIVE SpanLoop(_, _, _, _, _)
\* for x in (start.1.round() as i32) .. (end.1.round() as i32), line 343
SpanLoop(poly, x, x_end, line, acc) ==
  IF x >= x_end THEN acc
  ELSE SpanLoop(poly, x + 1, x_end, line, PixelStep(poly, x, line, acc))

RECURSIVE RowLoop(_, _, _, _, _)
\* for (start, end) in active_edge_table.iter().tuples(), line 341
RowLoop(poly, aet, k, line, acc) ==
  IF 2 * k > Len(aet) THEN acc
  ELSE RowLoop(poly, aet, k + 1, line,
               SpanLoop(poly, Round(aet[2 * k - 1].x), Round(aet[2 * k].x),
                        line, acc))

RECURSIVE SweepLoop3D(_, _, _, _, _)
\* the sweep loop, lines 338-384
SweepLoop3D(poly, get, aet, line, acc) ==
  LET drawn == RowLoop(poly, aet, 1, line, acc)
      next_line == line + 1
      kept == RetainMut(aet, next_line)
      t == TransferAtLine(get, kept, next_line)
  IN  IF t.aet = <<>> THEN drawn
      ELSE SweepLoop3D(poly, t.get, SortByX(t.aet), next_line, drawn)

\* the fill arm with a fill colour, lines 291-388, on depth map dm and a
\* target showing disp that accepts writes iff ok
Fill3D(poly, dm, disp, ok) ==
  LET get == BuildEdgeTable(poly.ring)
      acc == [dm |-> dm, disp |-> disp, covered |-> {}, emitted |-> {},
              ok |-> ok]
  IN  IF Len(get) > 1
      THEN LET line == get[1].top.y
               t == TransferInitial(get, <<>>, line)
           IN  SweepLoop3D(poly, t.get, t.aet, line, acc)
      ELSE acc

(***************************************************************************)
(* Inputs of the 3D fill.                                                  *)
(***************************************************************************)
\* vertex coordinates at the edges of the depth map: one before its first
\* index, its first index, and one past its last index plus one (so that a
\* span's exclusive end reaches the first index outside)
XCoords == {-1, 0, DMRows + 1}

YCoords == {-1, 0, DMCols + 1}

Points3 == {Point(px, py) : px \in XCoords, py \in YCoords}

\* the rings of three distinct vertices (a repeated vertex leaves two
\* coincident edges, whose spans start..end are empty)
Rings3 ==
  {r \in [1..3 -> Points3] : r[1] # r[2] /\ r[2] # r[3] /\ r[1] # r[3]}

\* every pixel a ring over Points3 can cover
Window == {<<px, py>> : px \in (-1)..(DMRows + 1), py \in (-1)..(DMCols + 1)}

Cells == {<<r, c>> : r \in 0..(DMRows - 1), c \in 0..(DMCols - 1)}

\* the quadrilateral around all of Points3
Cover == <<Point(-1, -1), Point(DMRows + 1, -1),
           Point(DMRows + 1, DMCols + 1), Point(-1, DMCols + 1)>>

\* Polygon3d::new(&[], depth_map): no vertex at all
EmptyPoly ==
  [ring |-> <<>>, depths |-> <<>>, colour |-> "a", translate |-> Point(0, 0)]

\* Polygon3d::new leaves translate at Point::zero() (line 259)
\* a triangle all of whose pixels lie far below the depth map's first index
\* on both axes
FarRing ==
  <<Point(-65536, -65536), Point(-65534, -65536), Point(-65536, -65534)>>

\* a triangle over the map's first cell whose third vertex is at x =
\* i32::MIN: the x difference of the edge from (2, 0), -2^31 - 2, leaves i32
WideRing3 == <<Point(-1, 0), Point(2, 0), Point(-2147483647 - 1, 1)>>

PolysA ==
  {[ring |-> r, depths |-> <<FromInt(3), FromInt(4), FromInt(3)>>,
    colour |-> "a", translate |-> Point(0, 0)] :
      r \in Rings3 \cup {FarRing, WideRing3}}
    \cup {EmptyPoly}

PolysB == {[ring |-> Cover, depths |-> [i \in 1..4 |-> FromInt(d[i])],
            colour |-> "b", translate |-> Point(0, 0)] :
             d \in {<<1, 2, 1, 2>>, <<5, 6, 5, 6>>}}

\* the f32 next above 3.0: 3 + 2^-22 (3.0000002)
AboveThree == F32(12582913, -22)

\* a scene of near-equal depths: a triangle whose vertices are all at depth
\* 3.0 under a square whose vertices are all at the next f32 above 3.0
NearA ==
  [ring |-> <<Point(-1, -1), Point(-1, 2), Point(2, -1)>>,
   depths |-> <<FromInt(3), FromInt(3), FromInt(3)>>,
   colour |-> "a", translate |-> Point(0, 0)]

NearB ==
  [ring |-> <<Point(-1, -1), Point(2, -1), Point(2, 2), Point(-1, 2)>>,
   depths |-> <<AboveThree, AboveThree, AboveThree, AboveThree>>,
   colour |-> "b", translate |-> Point(0, 0)]

NearDepths == {0, 3}

\* style.fill_color of a call
FillColors == {"Some", "None"}

InitDepths == {0, 7}

Init3D ==
  /\ \/ poly_a \in PolysA /\ poly_b \in PolysB /\ initial_depth \in InitDepths
     \/ poly_a = NearA /\ poly_b = NearB /\ initial_depth \in NearDepths
  /\ depth_map = [c \in Cells |-> FromInt(initial_depth)]
  /\ display = [p \in Window |-> "none"]
  /\ calls = <<>>
  /\ pre_depth_map = depth_map
  /\ covered = {}
  /\ emitted = {}
  /\ result3 = "none"
  /\ vertices = <<>>
  /\ translate = Point(0, 0)
  /\ stroke_width = 0
  /\ sink_ok \in BOOLEAN
  /\ fill_color = "Some"
  /\ pc = "start"
  /\ global_edge_table = <<>>
  /\ active_edge_table = <<>>
  /\ scan_line = 0
  /\ pixels = {}
  /\ write_failed = FALSE
  /\ result = "none"
  /\ iterations = 0
  /\ last_line = 0
  /\ last_active = 0
  /\ last_spans = 0
  /\ polyline_points = <<>>

\* the variables of the 2D machine that no 3D call writes
idle2 == <<vertices, translate, stroke_width, sink_ok, pc, global_edge_table,
           active_edge_table, scan_line, pixels, write_failed, result,
           iterations, last_line, last_active, last_spans>>

\* a scene is at most MaxCalls draw calls; a call that panics ends the
\* program, and an outline call is the last call of its scene
CanCall ==
  /\ Len(calls) < MaxCalls
  /\ result3 # "panic"
  /\ calls # <<>> => calls[Len(calls)] \in {"A", "B"}

\* one call of Polygon3d::draw_styled with style.stroke_width = 0 on the
\* shared depth map, lines 289-388: style.fill_color.unwrap() (line 290)
\* panics on a style without fill colour before anything else happens, and
\* the subtraction of line 297 or 298 panics when a difference overflows
\* and the build checks it; otherwise the fill returns Ok(()) (line 387)
\* whatever the target answered.  r is the outcome of the one run of the
\* fill.
Draw3D(name, poly) ==
  /\ CanCall
  /\ \E c \in FillColors, checked \in OverflowChecks(poly.ring) :
        /\ fill_color' = c
        /\ IF c = "None" \/ checked
           THEN /\ result3' = "panic"
                /\ covered' = {}
                /\ emitted' = {}
                /\ UNCHANGED <<depth_map, display>>
           ELSE \E r \in {Fill3D(poly, depth_map, display, sink_ok)} :
                    /\ depth_map' = r.dm
                    /\ display' = r.disp
                    /\ covered' = r.covered
                    /\ emitted' = r.emitted
                    /\ result3' = "Ok"
  /\ pre_depth_map' = depth_map
  /\ calls' = Append(calls, name)
  /\ UNCHANGED <<poly_a, poly_b, initial_depth, polyline_points>>
  /\ UNCHANGED idle2

DrawA == Draw3D("A", poly_a)

DrawB == Draw3D("B", poly_b)

\* Polyline::draw_styled with a stroke of width 1 (called at line 391) draws
\* every segment of the point list as a thin line that includes both of its
\* end points.  LineParams and ThinLine follow the line rasteriser of
\* embedded-graphics: one pixel per step along the major axis, a step along
\* the minor axis once the doubled error exceeds the major extent.
LineParams(a, b) ==
  LET dx == b.x - a.x
      dy == b.y - a.y
      sx == IF dx >= 0 THEN 1 ELSE -1
      sy == IF dy >= 0 THEN 1 ELSE -1
      y_major == Abs(dy) >= Abs(dx)
  IN  [major      |-> IF y_major THEN Abs(dy) ELSE Abs(dx),
       minor      |-> IF y_major THEN Abs(dx) ELSE Abs(dy),
       major_step |-> IF y_major THEN <<0, sy>> ELSE <<sx, 0>>,
       minor_step |-> IF y_major THEN <<sx, 0>> ELSE <<0, sy>>]

RECURSIVE ThinLine(_, _, _, _)
\* the next `left` pixels of the line with parameters q, from position p
ThinLine(p, error, left, q) ==
  IF left = 0 THEN {}
  ELSE LET stepped == error > q.major
           at == IF stepped
                 THEN <<p[1] + q.minor_step[1], p[2] + q.minor_step[2]>>
                 ELSE p
           err == IF stepped THEN error - 2 * q.major ELSE error
       IN  {at} \cup ThinLine(<<at[1] + q.major_step[1],
                                at[2] + q.major_step[2]>>,
                              err + 2 * q.minor, left - 1, q)

\* the pixels of the segments joining consecutive points
PolylinePixels(points) ==
  UNION {LET q == LineParams(points[i], points[i + 1])
         IN  ThinLine(<<points[i].x, points[i].y>>, 0, q.major + 1, q) :
           i \in 1..(Len(points) - 1)}

\* one call of Polygon3d::draw_styled with style.stroke_width > 0 (here 1,
\* with stroke colour "s"), lines 389-392: the closed point list, without
\* depths, goes to Polyline, which draws it on the target and whose result
\* is returned; self.vertices[0] panics on an empty vertex list.  The depth
\* map is neither read nor written.  The scenes draw no outline of a ring
\* whose differences overflow (a segment of it is 2^31 pixels long).
DrawOutline3D(name, poly) ==
  /\ CanCall
  /\ ~RingOverflows(poly.ring)
  /\ IF Len(poly.ring) = 0
     THEN /\ result3' = "panic"
          /\ UNCHANGED <<polyline_points, display>>
     ELSE LET points == ClosedPoints(poly.ring, poly.translate)
              drawn == PolylinePixels(points)
          IN  /\ polyline_points' = points
              /\ display' = IF sink_ok
                            THEN [p \in drawn |-> "s"] @@ display
                            ELSE display
              /\ result3' = IF sink_ok THEN "Ok" ELSE "Err"
  /\ covered' = {}
  /\ emitted' = {}
  /\ pre_depth_map' = depth_map
  /\ calls' = Append(calls, name)
  /\ UNCHANGED <<poly_a, poly_b, initial_depth, depth_map, fill_color>>
  /\ UNCHANGED idle2

OutlineA == DrawOutline3D("OutlineA", poly_a)

OutlineB == DrawOutline3D("OutlineB", poly_b)

Next3D == DrawA \/ DrawB \/ OutlineA \/ OutlineB

Spec3D == Init3D /\ [][Next3D]_vars

(***************************************************************************)
(* Properties of the flat fill, checked under Spec.                        *)
(***************************************************************************)
Filling == stroke_width = 0 /\ pc \in {"built", "sweep", "done"}

Extent(vs) == MaxYOf(vs) - MinYOf(vs)

ShiftBy(S, t) == {<<p[1] + t.x, p[2] + t.y>> : p \in S}

\* edge i of the ring is horizontal
Horizontal(vs, i) == vs[i].y = vs[(i % Len(vs)) + 1].y

HasHorizontalEdge(vs) == \E i \in 1..Len(vs) : Horizontal(vs, i)

\* C1: when a pixel write made during the sweep returned an error, the call
\* returns that error (never Ok).
C1_ErrorPropagates ==
  (pc = "done" /\ write_failed) => result = "Err"

\* C2: the pixels of a fill with translate = t are the pixels of the same
\* fill with translate = (0,0), shifted by t.
C2_FillTranslated ==
  (pc = "done" /\ stroke_width = 0 /\ sink_ok)
    => pixels = ShiftBy(FillPixels(vertices), translate)

\* C3: with fewer than 3 vertices the fill builds an empty edge table, emits
\* no pixel and returns Ok.
C3_FewVerticesNoOp ==
  (Filling /\ Len(vertices) < 3)
    => /\ pc = "built" => global_edge_table = <<>>
       /\ pixels = {}
       /\ pc = "done" => result = "Ok"

\* C4: the fill of [(0,0),(4,0),(0,4)] emits, for each row y in 0..3, the run
\* x = 0 .. 4 - y, row by row as the sweep advances, and nothing at row 4.
C4_TriangleFill ==
  (Filling /\ vertices = Triangle /\ sink_ok /\ pc # "built")
    => /\ pixels = {<<x, y>> \in (0..4) \X (0..4) :
                       y < scan_line /\ x <= 4 - y}
       /\ pc = "done" => scan_line = 4

C4_Witness ==
  /\ Filling /\ vertices = Triangle /\ sink_ok /\ pc = "done"
  /\ {<<4, 0>>, <<2, 2>>, <<1, 3>>} \subseteq pixels

\* C5: the sweep ends after at most (max_y - min_y) + 1 iterations (a sweep
\* still running has made fewer), and the scan line never passes max_y.
C5_SweepBounded ==
  (Filling /\ Len(vertices) > 0)
    => /\ iterations <= Extent(vertices) + 1
       /\ pc = "sweep" => /\ iterations < Extent(vertices) + 1
                          /\ iterations < MaxIter
       /\ (pc = "sweep" \/ iterations > 0) => scan_line <= MaxYOf(vertices)

C5_Witness ==
  /\ Filling /\ pc = "done" /\ Len(vertices) = 3
  /\ iterations = Extent(vertices)
  /\ iterations >= 2
  /\ scan_line = MaxYOf(vertices)

\* C6: at every pairing step on a scanline strictly between the ring's
\* minimum and maximum y the active edge list has an even number of entries
\* and the spans drawn are exactly half of them.  (It holds of every ring,
\* simple or not.)
C6_SpanParity ==
  (Filling /\ iterations > 0
     /\ MinYOf(vertices) < last_line /\ last_line < MaxYOf(vertices))
    => /\ last_active % 2 = 0
       /\ 2 * last_spans = last_active

C6_Witness ==
  /\ Filling /\ iterations > 0
  /\ vertices = <<Point(0, 0), Point(1, 1), Point(0, 2)>>
  /\ last_line = 1
  /\ last_active = 2
  /\ last_spans = 1

\* C10: a ring with horizontal edges is filled without error (a fill with a
\* fill colour never panics and returns Ok), and no horizontal edge is ever
\* in the global edge table or the active edge list: the table holds exactly
\* the ring's non-horizontal edges.  (The slope of a horizontal edge is
\* computed before the filter drops it: on WideRing the subtraction of line
\* 60 overflows on the horizontal edge itself, and a build with overflow
\* checks panics there.)
C10_NoHorizontalEdges ==
  /\ (stroke_width = 0 /\ fill_color = "Some" /\ HasHorizontalEdge(vertices))
       => pc # "panic"
  /\ (Filling /\ HasHorizontalEdge(vertices))
    => /\ \A i \in 1..Len(global_edge_table) :
             /\ global_edge_table[i].top.y < global_edge_table[i].max_y
             /\ IsFinite(global_edge_table[i].slope)
       /\ \A i \in 1..Len(active_edge_table) :
             /\ IsFinite(active_edge_table[i].slope)
             /\ active_edge_table[i].x.fin
       /\ pc = "built" =>
             Len(global_edge_table) =
               Cardinality({i \in 1..Len(vertices) : ~Horizontal(vertices, i)})
       /\ pc = "sweep" => iterations < MaxIter
       /\ pc = "done" => result = "Ok"

\* the table is ordered by top.y, and by top.x among equal top.y
Sorted(get) ==
  \A i \in 1..(Len(get) - 1) :
     \/ get[i].top.y < get[i + 1].top.y
     \/ get[i].top.y = get[i + 1].top.y /\ get[i].top.x <= get[i + 1].top.x

\* the table after the for_each closure has run on the first k of edges
TablePrefix(edges, k) == InsertAll(<<>>, SubSeq(edges, 1, k), 1)

\* the table after the for_each closure has run on the first k edges of
\* the ring
TableAfter(vs, k) == TablePrefix(RawEdges(vs), k)

\* C11: the global edge table is sorted by top.y ascending, and by top.x
\* ascending among equal top.y, after every single insertion of the builder
\* and in the table it hands to the sweep.
C11_TableSorted ==
  (Filling /\ pc = "built")
    => LET edges == RawEdges(vertices)
       IN  /\ \A k \in 0..Len(vertices) : Sorted(TablePrefix(edges, k))
           /\ global_edge_table = TablePrefix(edges, Len(vertices))
           /\ Sorted(global_edge_table)

\* a table of two edges that share top.y, where the edge inserted second went
\* in front of the edge inserted first
C11_Witness ==
  /\ Filling /\ pc = "built"
  /\ Len(global_edge_table) = 2
  /\ global_edge_table[1].top.y = global_edge_table[2].top.y
  /\ global_edge_table[1].top.x < global_edge_table[2].top.x
  /\ \E k \in 1..Len(vertices) :
        /\ TableAfter(vertices, k) = <<global_edge_table[2]>>
        /\ TableAfter(vertices, k - 1) = <<>>

\* the number of entries of seq equal to e
Count(seq, e) == Cardinality({i \in 1..Len(seq) : seq[i] = e})

\* the edges (by index) with top.y <= y < bottom_y; none of them is
\* horizontal, since top.y < bottom_y
CrossingEdges(edges, y) ==
  {i \in 1..Len(edges) : edges[i].top.y <= y /\ y < edges[i].max_y}

\* the non-horizontal edges (by index) that start below scan line y
LaterEdges(edges, y) ==
  {i \in 1..Len(edges) : edges[i].top.y # edges[i].max_y /\ edges[i].top.y > y}

\* what an active entry keeps of its edge for as long as it is active: max_y
\* and the inverse slope (its x moves with the scan line)
Kept(e) == <<e.max_y, e.slope>>

\* C12: at every pairing step, for scan line y, the active edge list holds
\* exactly the ring's non-horizontal edges with top.y <= y < bottom_y, each
\* once (so an edge enters at its top.y and leaves at its bottom_y), the edges
\* that start later are still in the global edge table, and the table is
\* empty when the sweep has ended.  An entry is told from the others by what
\* it keeps of its edge (max_y and slope), not by its x.
C12_ActiveExact ==
  Filling
    => /\ pc = "sweep" =>
             LET edges == RawEdges(vertices)
                 crossing == CrossingEdges(edges, scan_line)
                 later == LaterEdges(edges, scan_line)
                 active == [k \in 1..Len(active_edge_table) |->
                              Kept(active_edge_table[k])]
             IN  /\ Len(active_edge_table) = Cardinality(crossing)
                 /\ \A i \in crossing :
                       Count(active, Kept(edges[i]))
                         = Cardinality({j \in crossing :
                                          Kept(edges[j]) = Kept(edges[i])})
                 /\ Len(global_edge_table) = Cardinality(later)
                 /\ \A i \in later : Count(global_edge_table, edges[i]) >= 1
       /\ pc = "done" =>
             global_edge_table = <<>> /\ active_edge_table = <<>>

\* a pairing step on the row where one edge has just left and another has
\* just entered
C12_Witness ==
  /\ Filling /\ pc = "sweep"
  /\ vertices = <<Point(0, 0), Point(1, 1), Point(0, 2)>>
  /\ scan_line = 1
  /\ CrossingEdges(RawEdges(vertices), 0) = {1, 3}
  /\ CrossingEdges(RawEdges(vertices), 1) = {2, 3}
  /\ Len(active_edge_table) = 2
  /\ global_edge_table = <<>>

(***************************************************************************)
(* Properties of the depth-tested fill, checked under Spec3D.              *)
(***************************************************************************)
\* pixel p has a cell in the depth map
InMap(p) == p[1] >= 0 /\ p[1] < DMRows /\ p[2] >= 0 /\ p[2] < DMCols

\* the pixels the span loops of a fill of poly visit
CoveredOf(poly) ==
  Fill3D(poly, [c \in Cells |-> FromInt(0)], [p \in Window |-> "none"],
         TRUE).covered

PolyOf(name) == IF name \in {"A", "OutlineA"} THEN poly_a ELSE poly_b

\* no call so far took the outline arm
OnlyFills == \A i \in 1..Len(calls) : calls[i] \in {"A", "B"}

\* the latest call was a fill with a fill colour
FilledLast ==
  /\ calls # <<>>
  /\ calls[Len(calls)] \in {"A", "B"}
  /\ fill_color = "Some"

LastPoly == PolyOf(calls[Len(calls)])

\* every depth of B's vertices is greater than every depth of A's
BGreater ==
  \A i \in 1..Len(poly_a.depths), j \in 1..Len(poly_b.depths) :
    F32Less(poly_a.depths[i], poly_b.depths[j])

BOverlapsA == CoveredOf(poly_a) \subseteq CoveredOf(poly_b)

\* depth map and display after drawing first, then second, on the initial map
AfterBoth(first, second) ==
  LET one == Fill3D(first, [c \in Cells |-> FromInt(initial_depth)],
                    [p \in Window |-> "none"], sink_ok)
  IN  Fill3D(second, one.dm, one.disp, sink_ok)

OtherOrder ==
  IF calls = <<"A", "B">> THEN AfterBoth(poly_b, poly_a)
  ELSE AfterBoth(poly_a, poly_b)

\* both polygons were filled, each with a fill colour, on an accepting target
DrewBoth ==
  /\ calls \in {<<"A", "B">>, <<"B", "A">>}
  /\ fill_color = "Some"
  /\ sink_ok

\* C7: when A and B are both filled on one depth map, B covers every pixel A
\* covers and every vertex depth of B is greater than every vertex depth of
\* A, each pixel of the overlap ends with B's colour, and the final pixels
\* and depth map do not depend on the draw order.  The claim is read in the
\* code's favour: on a target that accepts every write, and for the pixels
\* the depth test can decide for B at all (inside the depth map, their cell
\* holding a value strictly below B's point depth before the two draws).
C7_OverlapShowsB ==
  (DrewBoth /\ BGreater /\ BOverlapsA)
    => /\ \A p \in CoveredOf(poly_a) \cap CoveredOf(poly_b) :
             (InMap(p) /\ F32Less(FromInt(initial_depth),
                                  PointDepth(poly_b, p[1], p[2])))
               => display[p] = poly_b.colour
       /\ depth_map = OtherOrder.dm
       /\ display = OtherOrder.disp

\* C8: each 3D fill call writes a covered in-bounds pixel, and overwrites its
\* cell with point_depth, exactly when the stored value is strictly less
\* than point_depth; otherwise neither is written.  No cell decreases and an
\* equal depth does not overwrite.
C8_DepthTestExact ==
  Len(calls) > 0 =>
    /\ \A p \in covered :
          InMap(p) =>
            LET point_depth == PointDepth(LastPoly, p[1], p[2])
            IN  IF F32Lt(pre_depth_map[p], point_depth)
                THEN /\ p \in emitted
                     /\ depth_map[p] = point_depth
                     /\ sink_ok => display[p] = LastPoly.colour
                ELSE /\ p \notin emitted
                     /\ depth_map[p] = pre_depth_map[p]
    /\ \A c \in Cells :
          /\ ~F32Lt(depth_map[c], pre_depth_map[c])
          /\ c \notin covered => depth_map[c] = pre_depth_map[c]

\* a fill whose vertex depths are all above the stored 3.0 and whose point
\* depth, as the sum of rounded terms, is 3.0: equal, so nothing is written
C8_Witness ==
  /\ calls = <<"B">> /\ fill_color = "Some"
  /\ poly_b = NearB
  /\ \A j \in 1..Len(poly_b.depths) : F32Less(FromInt(3), poly_b.depths[j])
  /\ <<0, 0>> \in covered
  /\ pre_depth_map[<<0, 0>>] = FromInt(3)
  /\ PointDepth(poly_b, 0, 0) = FromInt(3)
  /\ depth_map[<<0, 0>>] = FromInt(3)
  /\ <<0, 0>> \notin emitted

\* i32 values far below zero, down to i32::MIN
FarBelow == {-2147483647 - 1, -2147483647, -65536, -2, -1}

\* C9: a 3D fill (with a fill colour) whose covered pixels fall outside the
\* depth map neither panics nor fails, it returns Ok; no pixel outside the
\* map is emitted, every emitted pixel has a cell, and a cell changes only
\* when its own pixel is emitted (no coordinate outside the map writes a
\* cell).  A negative coordinate, down to i32::MIN, indexes no cell: the
\* scenes hold polygons reaching one below the map and one lying 65536
\* below it.  (While only fills have been drawn, no pixel outside the map
\* shows a colour.  On WideRing3, whose third vertex is at x = i32::MIN, the
\* subtraction of line 298 overflows, and a build with overflow checks
\* panics there.)
C9_BoundsSafe ==
  Len(calls) > 0 =>
    /\ FilledLast => result3 = "Ok"
    /\ \A p \in emitted : InMap(p) /\ p \in covered
    /\ \A c \in Cells : depth_map[c] # pre_depth_map[c] => c \in emitted
    /\ OnlyFills => \A p \in Window : ~InMap(p) => display[p] = "none"
    /\ \A i \in FarBelow :
          /\ ~InBounds(AsUsize(i), AsUsize(0))
          /\ ~InBounds(AsUsize(0), AsUsize(i))

(***************************************************************************)
(* The two fills compared on one ring, checked under Spec.                 *)
(***************************************************************************)
\* the ring as a Polygon3d, every vertex at depth 1
AsPolygon3d(vs) ==
  [ring |-> vs, depths |-> [i \in 1..Len(vs) |-> FromInt(1)],
   colour |-> "a", translate |-> Point(0, 0)]

\* the pixels the 3D fill of the ring emits when each pixel of its spans has
\* a cell of the depth map that holds a smaller depth: by lines 349-353 these
\* are the pixels its span loops visit
Pixels3D(vs) == CoveredOf(AsPolygon3d(vs))

\* C13: for one vertex ring, with every covered pixel inside the depth map
\* over a smaller stored depth, the 3D fill emits the same set of pixels as
\* the 2D fill (and so the same pixels on every scanline).
C13_SamePixels ==
  (pc = "done" /\ stroke_width = 0 /\ sink_ok)
    => pixels = Pixels3D(vertices)

=============================================================================
